---- MODULE Spec2Model ----
(***************************************************************************)
(* State-machine model of src/server.js: the per-connection WebSocket      *)
(* relay (auth, agent_start, agent_stop, source tags, binary audio), the   *)
(* Deepgram sockets it creates, the manager broadcast and the Gemini       *)
(* summarisation request issued by agent_stop.                             *)
(*                                                                         *)
(* Texts are sequences of string tokens; the token "\n" is a newline.      *)
(* Variables and fields whose names start with "h" are history: they       *)
(* record what the handlers did and no handler reads them.                 *)
(***************************************************************************)
EXTENDS Integers, Sequences, FiniteSets, TLC

\* ----------------------------------------------------------------- bounds
\* successful logins of an agent (each broadcasts agent_online)
MaxAgentLogins == 1
\* audio frames received while a call is active
MaxFrames == 1
\* calls started (crypto.randomUUID values drawn)
MaxCalls == 2
\* transcripts reported by the Deepgram sockets
MaxTranscripts == 1

\* ------------------------------------------------------------- constants
\* wss.clients in the order the clients connected
ClientOrder == <<"w1", "w2", "w3">>
Conns == {ClientOrder[i] : i \in DOMAIN ClientOrder}
Sources == {"mic", "tab"}
NoCall == 0
CallIds == 1..MaxCalls
NoAdapter == [call |-> NoCall, source |-> "none"]
AdapterIds == [call : CallIds, source : Sources]

USERS ==
    [user1 |-> [password |-> "password1", role |-> "agent"],
     user2 |-> [password |-> "password2", role |-> "agent"],
     manager |-> [password |-> "manager123", role |-> "manager"]]

\* property names every object literal inherits from Object.prototype
ObjectPrototypeKeys == {"constructor", "__proto__", "toString"}

\* USERS[msg.username]: an own entry, an inherited (truthy) value that has
\* neither password nor role, or undefined
UsersLookup(username) ==
    IF username \in DOMAIN USERS
    THEN [found |-> TRUE, password |-> USERS[username].password,
          role |-> USERS[username].role]
    ELSE IF username \in ObjectPrototypeKeys
    THEN [found |-> TRUE, password |-> "undefined", role |-> "undefined"]
    ELSE [found |-> FALSE, password |-> "undefined", role |-> "undefined"]

\* ------------------------------------------------------- inbound payloads
\* A payload is the frame's bytes: isBinary is the WebSocket opcode, parses
\* says whether the bytes are valid JSON text, value is what they parse to.
JsonNull == [kind |-> "null", type |-> "undefined", username |-> "undefined",
             password |-> "undefined", source |-> "undefined"]
JsonObj(t, u, p) ==
    [kind |-> "object", type |-> t, username |-> u, password |-> p,
     source |-> "undefined"]
Ctl(t) == [isBinary |-> FALSE, parses |-> TRUE,
           value |-> JsonObj(t, "undefined", "undefined")]
AuthMsg(u, p) == [isBinary |-> FALSE, parses |-> TRUE, value |-> JsonObj("auth", u, p)]
RawBytes(b) == [isBinary |-> b, parses |-> FALSE, value |-> JsonNull]
\* {"type": "audio_source", "source": s}
AudioSource(s) ==
    [isBinary |-> FALSE, parses |-> TRUE,
     value |-> [JsonObj("audio_source", "undefined", "undefined") EXCEPT !.source = s]]

AuthPayloads ==
    {AuthMsg("user1", "password1"), AuthMsg("manager", "manager123"),
     AuthMsg("user1", "wrong"), AuthMsg("constructor", "undefined")}
ControlPayloads ==
    {Ctl("agent_start"), Ctl("agent_stop"), Ctl("audio_mic"), Ctl("audio_tab"),
     Ctl("audio_source"), AudioSource("tab")}
MalformedPayloads ==
    {Ctl("bogus"), Ctl("undefined"),
     [isBinary |-> FALSE, parses |-> TRUE, value |-> JsonNull]}
\* audio bytes, text that is not JSON, and audio bytes that spell a JSON text
RawPayloads == {RawBytes(TRUE), RawBytes(FALSE)}
BinaryJsonPayloads ==
    {[isBinary |-> TRUE, parses |-> TRUE,
      value |-> JsonObj("agent_stop", "undefined", "undefined")]}
Payloads ==
    AuthPayloads \cup ControlPayloads \cup MalformedPayloads \cup RawPayloads
        \cup BinaryJsonPayloads

\* What the clients send in the specifications. w1 is the agent's client,
\* w2 and w3 are further clients. Under Spec w1 logs in and starts and stops
\* calls; under SpecProtocol w1 sends any payload, w2 logs in as a manager
\* and sends malformed messages and w3 sends nothing.
RelayInputs == {AuthMsg("user1", "password1"), Ctl("agent_start"), Ctl("agent_stop")}
ProtocolInputs(c) ==
    IF c = "w1" THEN Payloads
    ELSE IF c = "w2"
    THEN {AuthMsg("manager", "manager123"), Ctl("bogus"),
          [isBinary |-> FALSE, parses |-> TRUE, value |-> JsonNull]}
    ELSE {}

\* JSON.parse(data.toString()): the opcode plays no part
JSONParse(d) ==
    IF d.parses THEN [threw |-> FALSE, value |-> d.value]
    ELSE [threw |-> TRUE, value |-> JsonNull]

\* ------------------------------------------------------------------ texts
Whitespace == {"\n", " "}

RECURSIVE TrimStart(_)
TrimStart(t) ==
    IF t # <<>> /\ Head(t) \in Whitespace THEN TrimStart(Tail(t)) ELSE t

RECURSIVE TrimEnd(_)
TrimEnd(t) ==
    IF t # <<>> /\ t[Len(t)] \in Whitespace
    THEN TrimEnd(SubSeq(t, 1, Len(t) - 1)) ELSE t

\* String.prototype.trim
Trim(t) == TrimEnd(TrimStart(t))

\* Array.prototype.join(" ")
RECURSIVE Join(_)
Join(xs) ==
    IF xs = <<>> THEN <<>>
    ELSE IF Len(xs) = 1 THEN <<xs[1]>>
    ELSE <<xs[1], " ">> \o Join(Tail(xs))

\* summary.replace(/\n/g, "<br>")
ReplaceNewlines(t) == [i \in DOMAIN t |-> IF t[i] = "\n" THEN "<br>" ELSE t[i]]

\* the template literal of the agent_stop branch, trimmed
CombinedTranscript(micText, tabText) ==
    Trim(<<"\n", "AGENT SPEECH:", "\n">>
         \o (IF micText = <<>> THEN <<"No agent speech detected.">> ELSE micText)
         \o <<"\n", "\n", "SYSTEM / TAB AUDIO:", "\n">>
         \o (IF tabText = <<>> THEN <<"No system audio detected.">> ELSE tabText)
         \o <<"\n", " ">>)

\* ----------------------------------------------------------------- Gemini
\* What the summarisation request can come back with: fetch() rejecting,
\* res.json() rejecting, a body with an error descriptor, a body whose first
\* candidate has the listed parts (a part's text; <<>> is a part without text).
Resp(f, j, e, ps) == [fetchThrew |-> f, jsonThrew |-> j, error |-> e, parts |-> ps]
Responses ==
    {Resp(TRUE, FALSE, "undefined", <<>>),
     Resp(FALSE, TRUE, "undefined", <<>>),
     Resp(FALSE, FALSE, "quota exceeded", <<>>),
     Resp(FALSE, FALSE, "undefined", << <<>> >>),
     Resp(FALSE, FALSE, "undefined", << <<>>, <<"line one", "\n", "line two">> >>)}

Returned(fetched, v) == [threw |-> FALSE, fetched |-> fetched, value |-> v]
Thrown(fetched) == [threw |-> TRUE, fetched |-> fetched, value |-> <<>>]

\* summarizeWithGemini with the try/catch around the request left out
summarizeWithGeminiNoCatch(transcriptText, response) ==
    IF Trim(transcriptText) = <<>>
    THEN Returned(FALSE, <<"No conversation detected.">>)
    ELSE IF response.fetchThrew \/ response.jsonThrew
    THEN Thrown(TRUE)
    ELSE IF response.error # "undefined"
    THEN Returned(TRUE, <<"Gemini error: ", response.error>>)
    ELSE LET withText == SelectSeq(response.parts, LAMBDA p : p # <<>>)
         IN  IF withText = <<>> THEN Returned(TRUE, <<"Summary text missing.">>)
             ELSE Returned(TRUE, Head(withText))

\* summarizeWithGemini(transcriptText), given what the request comes back
\* with; fetched tells whether the request was issued at all
summarizeWithGemini(transcriptText, response) ==
    IF Trim(transcriptText) = <<>>
    THEN Returned(FALSE, <<"No conversation detected.">>)
    ELSE IF response.fetchThrew \/ response.jsonThrew
    THEN Returned(TRUE, <<"Summary generation failed.">>)
    ELSE IF response.error # "undefined"
    THEN Returned(TRUE, <<"Gemini error: ", response.error>>)
    ELSE LET withText == SelectSeq(response.parts, LAMBDA p : p # <<>>)
         IN  IF withText = <<>> THEN Returned(TRUE, <<"Summary text missing.">>)
             ELSE Returned(TRUE, Head(withText))

\* line 41 alone: the request is issued iff the trimmed text is not empty
IssuesFetch(transcriptText) ==
    summarizeWithGemini(transcriptText, Resp(TRUE, FALSE, "undefined", <<>>)).fetched

\* let summary = "Summary could not be generated."; try { summary = await ... }
SummaryOf(result) ==
    IF result.threw THEN <<"Summary could not be generated.">> ELSE result.value

\* ------------------------------------------------------------------ state
VARIABLES
    ws,         \* per client connection: the fields set on the ws object
    dg,         \* per Deepgram socket (call, source): its state
    pending,    \* agent_stop handlers suspended at the await
    bcast,      \* every broadcast(msg) call, with the clients it was sent to
    outbox,     \* per client connection: the reply ws.send gave it last
    procAlive,  \* the Node process is running
    uuids,      \* number of call ids generated so far
    nFrames,    \* frames received during an active call so far
    hCalls,     \* per call id: its connection and how it ended
    hSumm,      \* every summarizeWithGemini invocation
    hTag,       \* per client connection: the source its last tag message named
    broken      \* the client connections whose peer is gone while the
                \* connection still counts as open: a send to them fails

vars ==
    <<ws, dg, pending, bcast, outbox, procAlive, uuids, nFrames, hCalls, hSumm, hTag,
      broken>>

\* wss.on("connection"): the fields of a fresh connection
NewConnection ==
    [isAuthenticated |-> FALSE, username |-> "null", role |-> "null",
     callActive |-> FALSE, callId |-> NoCall,
     dgMic |-> NoAdapter, dgTab |-> NoAdapter, lastBinaryType |-> "null",
     transcripts |-> [mic |-> <<>>, tab |-> <<>>],
     readyState |-> "OPEN"]

\* a Deepgram socket that has not been created yet
NoSocket ==
    [owner |-> "none", readyState |-> "NONE", closeCalled |-> FALSE,
     sent |-> <<>>, hEarly |-> <<>>, hFinal |-> <<>>]

Init ==
    /\ ws = [c \in Conns |-> NewConnection]
    /\ dg = [a \in AdapterIds |-> NoSocket]
    /\ pending = {}
    /\ bcast = <<>>
    /\ outbox = [c \in Conns |-> "none"]
    /\ procAlive = TRUE
    /\ uuids = 0
    /\ nFrames = 0
    /\ hCalls = [k \in CallIds |-> [conn |-> "none", status |-> "none"]]
    /\ hSumm = <<>>
    /\ hTag = [c \in Conns |-> "none"]
    /\ broken = {}

\* ------------------------------------------------------------- broadcast
\* broadcast() without the role filter
RecipientsAnyRole(w) == {c \in Conns : w[c].readyState = "OPEN"}

\* broadcast() whose loop ends at the first send that fails
RecipientsUntilFailure(w) ==
    {ClientOrder[i] : i \in {j \in DOMAIN ClientOrder :
        /\ w[ClientOrder[j]].readyState = "OPEN" /\ w[ClientOrder[j]].role = "manager"
        /\ \A k \in 1..(j - 1) :
              ~(/\ w[ClientOrder[k]].readyState = "OPEN"
                /\ w[ClientOrder[k]].role = "manager"
                /\ ClientOrder[k] \in broken)}}

\* the clients broadcast() calls c.send(data) on, given the connections'
\* fields w
Recipients(w) == {c \in Conns : w[c].readyState = "OPEN" /\ w[c].role = "manager"}

\* one broadcast(msg) call: the event, the clients it was sent to and those
\* among them whose send failed. c.send is given no callback and its result
\* is not looked at: a failed send changes nothing in the loop.
BcastMsg(type, agent, callId, source, text, final, w) ==
    [type |-> type, agent |-> agent, callId |-> callId, source |-> source,
     text |-> text, final |-> final, to |-> Recipients(w),
     failed |-> Recipients(w) \cap broken]

\* how many events of a type have been broadcast
Count(type) == Cardinality({i \in DOMAIN bcast : bcast[i].type = type})

\* ---------------------------------------------------------- ws "message"
\* a client message can be handled: the connection is open, the process runs
CanReceive(c) ==
    /\ procAlive
    /\ ws[c].readyState = "OPEN"

\* the message of a frame that parsed, and the branch the handler takes
Parsed(d) == JSONParse(d).value
IsObject(d) == ~JSONParse(d).threw /\ Parsed(d).kind = "object"
IsAuth(d) == Parsed(d).type = "auth"
IsStart(c, d) ==
    ~IsAuth(d) /\ ws[c].isAuthenticated
        /\ Parsed(d).type = "agent_start" /\ ws[c].role = "agent"
IsStop(c, d) ==
    ~IsAuth(d) /\ ws[c].isAuthenticated /\ ~IsStart(c, d)
        /\ Parsed(d).type = "agent_stop" /\ ws[c].callActive
IsTag(c, d) ==
    ~IsAuth(d) /\ ws[c].isAuthenticated /\ ~IsStart(c, d) /\ ~IsStop(c, d)
        /\ Parsed(d).type \in {"audio_mic", "audio_tab"}

\* msg.type === "auth", credentials rejected
AuthFailed(c, d) ==
    /\ CanReceive(c)
    /\ IsObject(d) /\ IsAuth(d)
    /\ LET user == UsersLookup(Parsed(d).username)
       IN  ~user.found \/ user.password # Parsed(d).password
    /\ outbox' = [outbox EXCEPT ![c] = "auth_failed"]
    /\ UNCHANGED <<ws, dg, pending, bcast, procAlive, uuids, nFrames, hCalls, hSumm, hTag, broken>>

\* msg.type === "auth", credentials accepted
AuthSuccess(c, d) ==
    /\ CanReceive(c)
    /\ IsObject(d) /\ IsAuth(d)
    /\ LET msg == Parsed(d)
           user == UsersLookup(msg.username)
           w == [ws EXCEPT ![c].isAuthenticated = TRUE,
                           ![c].username = msg.username,
                           ![c].role = user.role]
       IN  /\ user.found /\ user.password = msg.password
           /\ user.role = "agent" => Count("agent_online") < MaxAgentLogins
           /\ ws' = w
           /\ bcast' = IF user.role = "agent"
                       THEN Append(bcast, BcastMsg("agent_online", msg.username,
                                                   NoCall, "none", <<>>, FALSE, w))
                       ELSE bcast
    /\ outbox' = [outbox EXCEPT ![c] = "auth_success"]
    /\ UNCHANGED <<dg, pending, procAlive, uuids, nFrames, hCalls, hSumm, hTag, broken>>

\* JSON.parse returned null: msg.type throws a TypeError inside the async
\* handler and nothing handles the rejected promise. Node 15 and later end
\* the process on an unhandled rejection, earlier versions only warn. A
\* process that ended has lost its connections, sockets and handlers.
NullMessage(c, d) ==
    /\ CanReceive(c)
    /\ ~JSONParse(d).threw /\ Parsed(d).kind = "null"
    /\ \E exits \in BOOLEAN :
        IF exits
        THEN /\ procAlive' = FALSE
             /\ ws' = [x \in Conns |-> [NewConnection EXCEPT !.readyState = "CLOSED"]]
             /\ dg' = [a \in AdapterIds |->
                         IF dg[a].readyState = "NONE" THEN dg[a]
                         ELSE [dg[a] EXCEPT !.readyState = "CLOSED"]]
             /\ pending' = {}
             /\ hTag' = [x \in Conns |-> "none"]
             /\ broken' = {}
        ELSE UNCHANGED <<procAlive, ws, dg, pending, hTag, broken>>
    /\ UNCHANGED <<bcast, outbox, uuids, nFrames, hCalls, hSumm, broken>>

\* a message that parsed and matches no branch: before authentication
\* anything but auth, afterwards anything that is no start, stop or tag
Ignored(c, d) ==
    /\ CanReceive(c)
    /\ IsObject(d)
    /\ ~IsAuth(d) /\ ~IsStart(c, d) /\ ~IsStop(c, d) /\ ~IsTag(c, d)
    /\ hTag' = IF ws[c].isAuthenticated /\ Parsed(d).source \in Sources
               THEN [hTag EXCEPT ![c] = Parsed(d).source]
               ELSE hTag
    /\ UNCHANGED <<ws, dg, pending, bcast, outbox, procAlive, uuids, nFrames, hCalls, hSumm, broken>>

\* msg.type === "audio_mic" / "audio_tab"
TagSource(c, d) ==
    /\ CanReceive(c)
    /\ IsObject(d) /\ IsTag(c, d)
    /\ ws' = [ws EXCEPT ![c].lastBinaryType =
                 IF Parsed(d).type = "audio_mic" THEN "mic" ELSE "tab"]
    /\ hTag' = [hTag EXCEPT ![c] = IF Parsed(d).type = "audio_mic" THEN "mic" ELSE "tab"]
    /\ UNCHANGED <<dg, pending, bcast, outbox, procAlive, uuids, nFrames, hCalls, hSumm, broken>>

\* ---------------------------------------------------------------- Deepgram
\* createDeepgramSocket(ws, callId, source): a socket that is connecting
NewSocket(c) == [NoSocket EXCEPT !.owner = c, !.readyState = "CONNECTING"]

\* WebSocket.close(): a connecting socket aborts its handshake and is closed
\* with no message delivered; an open one sends its close frame and keeps
\* delivering messages until the peer answers
CloseSocket(s) ==
    [s EXCEPT !.closeCalled = TRUE,
              !.readyState = IF s.readyState = "CONNECTING" THEN "CLOSED"
                             ELSE IF s.readyState = "OPEN" THEN "CLOSING"
                             ELSE s.readyState]

\* ws.dgMic?.close(); ws.dgTab?.close()
CloseAdapters(sockets, w) ==
    [a \in AdapterIds |->
        IF a \in {w.dgMic, w.dgTab} THEN CloseSocket(sockets[a]) ELSE sockets[a]]

\* msg.type === "agent_start" && ws.role === "agent"
StartCall(c, d) ==
    /\ CanReceive(c)
    /\ IsObject(d) /\ IsStart(c, d)
    /\ uuids < MaxCalls
    /\ LET k == uuids + 1
           mic == [call |-> k, source |-> "mic"]
           tab == [call |-> k, source |-> "tab"]
           w == [ws EXCEPT ![c].callId = k, ![c].callActive = TRUE,
                           ![c].transcripts = [mic |-> <<>>, tab |-> <<>>],
                           ![c].dgMic = mic, ![c].dgTab = tab]
       IN  /\ uuids' = k
           /\ ws' = w
           /\ dg' = [dg EXCEPT ![mic] = NewSocket(c), ![tab] = NewSocket(c)]
           /\ bcast' = Append(bcast, BcastMsg("agent_join", ws[c].username, k,
                                              "none", <<>>, FALSE, w))
           /\ hCalls' = [x \in CallIds |->
                            IF x = k THEN [conn |-> c, status |-> "active"]
                            ELSE IF ws[c].callActive /\ x = ws[c].callId
                            THEN [hCalls[x] EXCEPT !.status = "replaced"]
                            ELSE hCalls[x]]
    /\ UNCHANGED <<pending, outbox, procAlive, nFrames, hSumm, hTag, broken>>

\* one invocation of summarizeWithGemini by the agent_stop branch
Invocation(c, text) ==
    [conn |-> c, call |-> ws[c].callId, text |-> text,
     mic |-> ws[c].transcripts.mic, tab |-> ws[c].transcripts.tab,
     hMic |-> dg[[call |-> ws[c].callId, source |-> "mic"]].hFinal,
     hTab |-> dg[[call |-> ws[c].callId, source |-> "tab"]].hFinal,
     unclosed |-> {a \in AdapterIds :
                      /\ a.call = ws[c].callId
                      /\ ~CloseAdapters(dg, ws[c])[a].closeCalled},
     fetched |-> IssuesFetch(text), done |-> FALSE,
     result |-> Returned(FALSE, <<>>), summaryAt |-> 0]

\* the agent_stop branch from the await on: broadcast the summary with the
\* connection's callId as it is now, then forget the adapters
AfterAwait(c, i, result, w, invocations) ==
    /\ bcast' = Append(bcast, BcastMsg("summary", "none", w[c].callId, "none",
                                       ReplaceNewlines(SummaryOf(result)), FALSE, w))
    /\ ws' = [w EXCEPT ![c].dgMic = NoAdapter, ![c].dgTab = NoAdapter]
    /\ hSumm' = [invocations EXCEPT ![i].done = TRUE, ![i].result = result,
                                    ![i].summaryAt = Len(bcast) + 1]

\* msg.type === "agent_stop" && ws.callActive, up to the await; when the
\* text is blank summarizeWithGemini returns without a request and the
\* handler continues before any other event is handled
StopCall(c, d) ==
    /\ CanReceive(c)
    /\ IsObject(d) /\ IsStop(c, d)
    /\ LET w == [ws EXCEPT ![c].callActive = FALSE]
           micText == Join(ws[c].transcripts.mic)
           tabText == Join(ws[c].transcripts.tab)
           combinedTranscript == CombinedTranscript(micText, tabText)
           invocations == Append(hSumm, Invocation(c, combinedTranscript))
       IN  /\ dg' = CloseAdapters(dg, ws[c])
           /\ hCalls' = [hCalls EXCEPT ![ws[c].callId].status = "stopped"]
           /\ IF IssuesFetch(combinedTranscript)
              THEN /\ pending' = pending \cup {[conn |-> c, req |-> Len(invocations)]}
                   /\ ws' = w
                   /\ hSumm' = invocations
                   /\ UNCHANGED bcast
              ELSE /\ AfterAwait(c, Len(invocations),
                                 summarizeWithGemini(combinedTranscript,
                                                     Resp(TRUE, FALSE, "undefined", <<>>)),
                                 w, invocations)
                   /\ UNCHANGED pending
    /\ UNCHANGED <<outbox, procAlive, uuids, nFrames, hTag, broken>>

\* the summarisation request of a suspended agent_stop handler comes back
ResumeStop(p, response) ==
    /\ procAlive
    /\ p \in pending
    /\ AfterAwait(p.conn, p.req, summarizeWithGemini(hSumm[p.req].text, response),
                  ws, hSumm)
    /\ pending' = pending \ {p}
    /\ UNCHANGED <<dg, outbox, procAlive, uuids, nFrames, hCalls, hTag, broken>>

\* the socket a frame goes to: the adapter field the current tag names
TaggedAdapter(w) ==
    IF w.lastBinaryType = "mic" THEN w.dgMic
    ELSE IF w.lastBinaryType = "tab" THEN w.dgTab
    ELSE NoAdapter

\* JSON.parse threw: the frame is audio
BinaryAudio(c, d) ==
    /\ CanReceive(c)
    /\ JSONParse(d).threw
    /\ IF ~ws[c].callActive
       THEN UNCHANGED <<dg, nFrames>>
       ELSE /\ nFrames < MaxFrames
            /\ nFrames' = nFrames + 1
            /\ dg' = [a \in AdapterIds |->
                        IF a = TaggedAdapter(ws[c]) /\ dg[a].readyState = "OPEN"
                        THEN [dg[a] EXCEPT !.sent = Append(@, nFrames + 1)]
                        ELSE IF /\ a.call = ws[c].callId
                                /\ a.source = ws[c].lastBinaryType
                                /\ dg[a].readyState = "CONNECTING"
                        THEN [dg[a] EXCEPT !.hEarly = Append(@, nFrames + 1)]
                        ELSE dg[a]]
    /\ UNCHANGED <<ws, pending, bcast, outbox, procAlive, uuids, hCalls, hSumm, hTag, broken>>

\* ws.on("close")
CloseConn(c) ==
    /\ procAlive
    /\ ws[c].readyState = "OPEN"
    /\ LET w == [ws EXCEPT ![c].readyState = "CLOSED"]
       IN  /\ ws' = w
           /\ IF ws[c].role = "agent"
              THEN /\ bcast' = Append(bcast, BcastMsg("agent_offline", ws[c].username,
                                                      NoCall, "none", <<>>, FALSE, w))
                   /\ dg' = CloseAdapters(dg, ws[c])
              ELSE UNCHANGED <<bcast, dg>>
    /\ hCalls' = [k \in CallIds |->
                    IF ws[c].callActive /\ k = ws[c].callId
                    THEN [hCalls[k] EXCEPT !.status = "disconnected"]
                    ELSE hCalls[k]]
    /\ broken' = broken \ {c}
    /\ UNCHANGED <<pending, outbox, procAlive, uuids, nFrames, hSumm, hTag>>

\* the peer of a client connection goes away; the server learns of it only
\* with the close event, until then the connection is OPEN and every
\* c.send to it fails
Break(c) ==
    /\ procAlive
    /\ ws[c].readyState = "OPEN"
    /\ c \notin broken
    /\ broken' = broken \cup {c}
    /\ UNCHANGED <<ws, dg, pending, bcast, outbox, procAlive, uuids, nFrames, hCalls,
                   hSumm, hTag>>

\* dg.onopen: the Deepgram socket is connected. (dg.onerror and dg.onclose
\* only log; a socket the peer closed takes no frame and delivers no
\* message, which is what a socket does that stays as it is.)
DgOpen(a) ==
    /\ procAlive
    /\ dg[a].readyState = "CONNECTING"
    /\ dg' = [dg EXCEPT ![a].readyState = "OPEN"]
    /\ UNCHANGED <<ws, pending, bcast, outbox, procAlive, uuids, nFrames, hCalls, hSumm, hTag, broken>>

\* What a Deepgram socket delivers: text that is not JSON, an event without
\* an alternative, or an event whose first alternative has a transcript.
DgEvent(parses, transcript, final) ==
    [parses |-> parses, transcript |-> transcript, is_final |-> final]
DgEvents ==
    {DgEvent(FALSE, "undefined", FALSE), DgEvent(TRUE, "undefined", FALSE),
     DgEvent(TRUE, "hello", TRUE), DgEvent(TRUE, "world", TRUE),
     DgEvent(TRUE, "hello", FALSE)}

\* dg.onmessage of the socket created for (ws = owner, callId, source)
DgMessage(a, m) ==
    /\ procAlive
    /\ dg[a].readyState \in {"OPEN", "CLOSING"}
    /\ LET c == dg[a].owner
           accepted == m.parses /\ m.transcript # "undefined"
           w == IF accepted /\ m.is_final
                THEN [ws EXCEPT ![c].transcripts[a.source] = Append(@, m.transcript)]
                ELSE ws
       IN  /\ accepted => Count("transcript") < MaxTranscripts
           /\ ws' = w
           /\ dg' = IF accepted /\ m.is_final
                    THEN [dg EXCEPT ![a].hFinal = Append(@, m.transcript)]
                    ELSE dg
           /\ bcast' = IF accepted
                       THEN Append(bcast, BcastMsg("transcript", "none", a.call,
                                       a.source, <<m.transcript>>, m.is_final, w))
                       ELSE bcast
    /\ UNCHANGED <<pending, outbox, procAlive, uuids, nFrames, hCalls, hSumm, hTag, broken>>

\* ws.on("message"): the whole handler, on payload d of connection c
HandleMessage(c, d) ==
    \/ AuthFailed(c, d)
    \/ AuthSuccess(c, d)
    \/ NullMessage(c, d)
    \/ Ignored(c, d)
    \/ TagSource(c, d)
    \/ StartCall(c, d)
    \/ StopCall(c, d)
    \/ BinaryAudio(c, d)

\* ---------------------------------------------------------- specifications
\* Call lifecycle: the agent logs in, starts and stops calls and disconnects
\* while the Deepgram sockets and the summarisation request behave in every
\* way.
Next ==
    \/ \E d \in RelayInputs :
        \/ AuthSuccess("w1", d)
        \/ Ignored("w1", d)
        \/ StartCall("w1", d)
        \/ StopCall("w1", d)
    \/ CloseConn("w1")
    \/ \E p \in pending : \E r \in Responses : ResumeStop(p, r)
    \/ \E a \in AdapterIds : DgOpen(a)
    \/ \E a \in AdapterIds : \E m \in DgEvents : DgMessage(a, m)

Spec == Init /\ [][Next]_vars

\* Summarisation: one call of the agent, ended by agent_stop or left
\* open, with every outcome of the summarisation request.
NextSummary ==
    \/ \E d \in RelayInputs :
        \/ AuthSuccess("w1", d)
        \/ Ignored("w1", d)
        \/ StartCall("w1", d) /\ uuids = 0
        \/ StopCall("w1", d)
    \/ CloseConn("w1")
    \/ \E p \in pending : \E r \in Responses : ResumeStop(p, r)
    \/ \E a \in AdapterIds : DgOpen(a)
    \/ \E a \in AdapterIds : \E m \in DgEvents : DgMessage(a, m)

SpecSummary == Init /\ [][NextSummary]_vars

\* Client protocol: both clients send any payload during at most one call;
\* the summarisation request fails and the Deepgram sockets report nothing.
NextProtocol ==
    \/ \E c \in Conns : \E d \in ProtocolInputs(c) :
        \/ AuthFailed(c, d)
        \/ AuthSuccess(c, d)
        \/ NullMessage(c, d)
        \/ Ignored(c, d)
        \/ TagSource(c, d)
        \/ StartCall(c, d) /\ uuids = 0
        \/ StopCall(c, d)
        \/ BinaryAudio(c, d)
    \/ \E c \in Conns : CloseConn(c)
    \/ \E p \in pending : ResumeStop(p, Resp(TRUE, FALSE, "undefined", <<>>))
    \/ \E a \in AdapterIds : DgOpen(a)

SpecProtocol == Init /\ [][NextProtocol]_vars

\* Broadcast: one call of the agent w1 while w2 and w3 log in as managers;
\* w1 and w2 disconnect, and the peer of the manager w2 can go away before
\* its close event. The summarisation request comes back with an error descriptor and
\* the mic socket of the call reports final utterances.
NextBroadcast ==
    \/ \E d \in RelayInputs :
        \/ AuthSuccess("w1", d)
        \/ StartCall("w1", d) /\ uuids = 0
        \/ StopCall("w1", d)
    \/ \E c \in {"w2", "w3"} : AuthSuccess(c, AuthMsg("manager", "manager123"))
    \/ \E c \in {"w1", "w2"} : CloseConn(c)
    \/ Break("w2") /\ ws["w2"].role = "manager"
    \/ \E p \in pending : ResumeStop(p, Resp(FALSE, FALSE, "quota exceeded", <<>>))
    \/ DgOpen([call |-> 1, source |-> "mic"])
    \/ DgMessage([call |-> 1, source |-> "mic"], DgEvent(TRUE, "hello", TRUE))

SpecBroadcast == Init /\ [][NextBroadcast]_vars

\* ------------------------------------------------------------------ claims
\* the summary events broadcast with call id k
SummariesFor(k) ==
    {i \in DOMAIN bcast : bcast[i].type = "summary" /\ bcast[i].callId = k}

\* C1: a call that has completed, by agent_stop or by its connection
\* closing while it was active, has exactly one summary event once no
\* agent_stop handler is waiting any more.
C1_ExactlyOneSummary ==
    \A k \in CallIds :
        (hCalls[k].status \in {"stopped", "disconnected"} /\ pending = {})
            => Cardinality(SummariesFor(k)) = 1

\* C2: the frames received for a source while its socket was still
\* connecting are the first frames the socket was sent, in the order
\* received, once the socket is open.
C2_EarlyFramesDelivered ==
    \A a \in AdapterIds :
        dg[a].readyState = "OPEN"
            => /\ Len(dg[a].sent) >= Len(dg[a].hEarly)
               /\ SubSeq(dg[a].sent, 1, Len(dg[a].hEarly)) = dg[a].hEarly

\* C3: the text agent_stop hands to summarizeWithGemini is made of exactly
\* the final utterances the two sockets of that call had reported, per
\* source in the order reported.
C3_TranscriptOfOwnSession ==
    \A i \in DOMAIN hSumm :
        hSumm[i].text = CombinedTranscript(Join(hSumm[i].hMic), Join(hSumm[i].hTab))

\* C4: a call stopped with no utterance finalized on either source issues
\* no summarisation request and its summary is "No conversation detected.".
C4_EmptyTranscriptNoFetch ==
    \A i \in DOMAIN hSumm :
        (hSumm[i].mic = <<>> /\ hSumm[i].tab = <<>>)
            => /\ ~hSumm[i].fetched
               /\ hSumm[i].done =>
                     bcast[hSumm[i].summaryAt].text = <<"No conversation detected.">>

\* text that is not JSON, an unrecognized or absent type, JSON null
MalformedTexts == MalformedPayloads \cup {RawBytes(FALSE)}

\* C5: handling a malformed text message ends neither the process nor a
\* connection, changes no connection's fields and sends nothing to a
\* Deepgram socket.
C5_MalformedIgnored ==
    [][\A c \in Conns : \A d \in MalformedTexts :
          HandleMessage(c, d) => (procAlive' /\ ws' = ws /\ dg' = dg)]_vars

\* C6: an agent_start handled while the connection's call is active
\* generates no call id, creates no socket and keeps the transcript.
C6_StartOnlyFromIdle ==
    [][\A c \in Conns : \A d \in Payloads :
          (StartCall(c, d) /\ ws[c].callActive)
              => (uuids' = uuids /\ dg' = dg
                    /\ ws'[c].transcripts = ws[c].transcripts)]_vars

\* C7: a frame is sent to no socket outside a call or without a tag, and
\* during a call with tag mic or tab to the socket of the current call for
\* that tag and to no other.
C7_FrameRouting ==
    [][\A c \in Conns : \A d \in RawPayloads :
          BinaryAudio(c, d) =>
              \A a \in AdapterIds :
                  IF /\ ws[c].callActive
                     /\ a = [call |-> ws[c].callId, source |-> ws[c].lastBinaryType]
                  THEN dg'[a].sent = Append(dg[a].sent, nFrames')
                  ELSE dg'[a].sent = dg[a].sent]_vars

\* C8: the summary event an agent_stop handler broadcasts carries the id of
\* the call that agent_stop ended.
C8_SummaryCarriesStoppedCall ==
    \A i \in DOMAIN hSumm :
        hSumm[i].done => bcast[hSumm[i].summaryAt].callId = hSumm[i].call

\* C9: when summarizeWithGemini is invoked for a call, close() has been
\* called on every socket created for that call.
C9_AdaptersClosedBeforeSummary ==
    \A i \in DOMAIN hSumm : hSumm[i].unclosed = {}

\* C10: whatever the summarisation request comes back with,
\* summarizeWithGemini returns a text and does not throw, the handler
\* broadcasts it as a summary event, and the connection is closed by nothing
\* but its own close event.
C10_SummaryWhateverTheOutcome ==
    \A i \in DOMAIN hSumm :
        hSumm[i].done =>
            /\ ~hSumm[i].result.threw
            /\ hSumm[i].result.value # <<>>
            /\ hSumm[i].summaryAt \in DOMAIN bcast
            /\ bcast[hSumm[i].summaryAt].type = "summary"
            /\ bcast[hSumm[i].summaryAt].text = ReplaceNewlines(hSumm[i].result.value)
            /\ procAlive
            /\ ws[hSumm[i].conn].readyState = "CLOSED" => Count("agent_offline") > 0

\* C10 witness: a request that failed in transit ended in a broadcast
\* summary on a connection that is still open.
C10_Witness ==
    \E i \in DOMAIN hSumm :
        /\ hSumm[i].done
        /\ hSumm[i].result.value = <<"Summary generation failed.">>
        /\ bcast[hSumm[i].summaryAt].type = "summary"
        /\ ws[hSumm[i].conn].readyState = "OPEN"

\* a call that has ended: agent_stop was handled or its connection closed
Ended(k) == hCalls[k].status \in {"stopped", "disconnected"}

\* C11: once a call has ended, no step appends to its transcript, and once
\* its summary event has been broadcast no step broadcasts a transcript
\* event carrying its call id.
C11_EndedTranscriptImmutable ==
    [][\A k \in CallIds :
          Ended(k) =>
              /\ \A c \in Conns :
                    (ws[c].callId = k /\ ws'[c].callId = k)
                        => ws'[c].transcripts = ws[c].transcripts
              /\ SummariesFor(k) # {} =>
                    \A i \in DOMAIN bcast' \ DOMAIN bcast :
                        ~(bcast'[i].type = "transcript" /\ bcast'[i].callId = k)]_vars

\* the credentials of an auth message are those of an entry of USERS
KnownCredentials(msg) ==
    /\ msg.username \in DOMAIN USERS
    /\ USERS[msg.username].password = msg.password

\* C12: an auth message whose username is unknown or whose password does
\* not match is answered with auth_failed, changes no field of any
\* connection and broadcasts nothing.
C12_AuthFailureLeavesState ==
    [][\A c \in Conns : \A d \in AuthPayloads :
          (HandleMessage(c, d) /\ ~KnownCredentials(Parsed(d)))
              => (outbox'[c] = "auth_failed" /\ ws' = ws /\ bcast' = bcast)]_vars

\* the event types broadcast() is called with
EventTypes == {"agent_online", "agent_join", "transcript", "summary", "agent_offline"}

\* the clients that are open and have role manager, given the fields w
OpenManagers(w) == {c \in Conns : w[c].readyState = "OPEN" /\ w[c].role = "manager"}

\* C13: every broadcast event is one of the five event types and is sent
\* to every client that is open with role manager when it is broadcast,
\* and to no client that is unauthenticated, has role agent or is not open.
C13_BroadcastToOpenManagers ==
    [][Len(bcast') > Len(bcast) =>
          /\ bcast'[Len(bcast')].type \in EventTypes
          /\ OpenManagers(ws') \subseteq bcast'[Len(bcast')].to
          /\ \A c \in bcast'[Len(bcast')].to :
                /\ ws'[c].isAuthenticated
                /\ ws'[c].role # "agent"
                /\ ws'[c].readyState = "OPEN"]_vars

\* C13 witness: all five event types have been broadcast, one event went
\* to both managers and the agent_offline event went to the one manager
\* still connected.
C13_Witness ==
    /\ \A t \in EventTypes : Count(t) > 0
    /\ \E i \in DOMAIN bcast : bcast[i].to = {"w2", "w3"}
    /\ \E i \in DOMAIN bcast :
          bcast[i].type = "agent_offline" /\ bcast[i].to = {"w3"}
    /\ ws["w2"].role = "manager" /\ ws["w2"].readyState = "CLOSED"

TagPayloads == {Ctl("audio_mic"), Ctl("audio_tab"), AudioSource("tab")}

\* C15: the source tag of a connection is the source its last tag message
\* (audio_source, audio_mic, audio_tab) named, and handling a tag message
\* changes nothing but the tag: no other field of a connection, no socket,
\* no reply, no broadcast.
C15_TagSetsSourceOnly ==
    /\ [](\A c \in Conns : hTag[c] # "none" => ws[c].lastBinaryType = hTag[c])
    /\ [][\A c \in Conns : \A d \in TagPayloads :
             (HandleMessage(c, d) /\ ws[c].isAuthenticated)
                 => /\ \E t \in Sources : ws' = [ws EXCEPT ![c].lastBinaryType = t]
                    /\ UNCHANGED <<dg, pending, bcast, outbox, procAlive, uuids>>]_vars

\* C16: a Deepgram socket appends a final utterance only while the
\* connection's call is the call the socket was created for, and the
\* transcript event then carries the id of the call whose transcript
\* received the utterance.
C16_AdapterWritesOwnSession ==
    [][\A a \in AdapterIds : \A m \in DgEvents :
          (DgMessage(a, m)
             /\ ws'[dg[a].owner].transcripts # ws[dg[a].owner].transcripts)
              => /\ ws[dg[a].owner].callId = a.call
                 /\ bcast'[Len(bcast')].callId = ws[dg[a].owner].callId]_vars

\* C17: a binary frame, whatever its bytes, received during an active call
\* with a tag set and the tagged socket open is sent to that socket and
\* changes no field of any connection.
C17_BinaryFrameOpaque ==
    [][\A c \in Conns : \A d \in Payloads :
          (/\ d.isBinary
           /\ HandleMessage(c, d)
           /\ ws[c].callActive
           /\ TaggedAdapter(ws[c]) # NoAdapter
           /\ dg[TaggedAdapter(ws[c])].readyState = "OPEN")
              => /\ ws' = ws
                 /\ dg'[TaggedAdapter(ws[c])].sent
                        = Append(dg[TaggedAdapter(ws[c])].sent, nFrames')]_vars

\* C18: a connection with an active call refers to the mic and the tab
\* socket created for its current call id.
C18_ActiveCallHasAdapters ==
    \A c \in Conns :
        ws[c].callActive =>
            /\ ws[c].dgMic = [call |-> ws[c].callId, source |-> "mic"]
            /\ ws[c].dgTab = [call |-> ws[c].callId, source |-> "tab"]

\* C19: once a connection's close event has been handled, close() has been
\* called on every Deepgram socket the connection created.
C19_AllAdaptersClosedAtDisconnect ==
    \A c \in Conns :
        (procAlive /\ ws[c].readyState = "CLOSED")
            => \A a \in AdapterIds : dg[a].owner = c => dg[a].closeCalled

\* C20: a connection with an active call is authenticated and has role
\* agent.
C20_ActiveCallOfAgent ==
    \A c \in Conns :
        ws[c].callActive => (ws[c].isAuthenticated /\ ws[c].role = "agent")

====
